---- MODULE Spec2Model ----
(***************************************************************************)
(* Check-in / check-out gate of the smart parking system.                  *)
(*                                                                         *)
(* The store (reservations, parking_spaces) and the Redis lock service are *)
(* shared by every server process.  Each process owns one ParkingQueue,    *)
(* one Semaphore and the goroutines that run ProcessCheckIn; main starts   *)
(* one consumer goroutine (processParkingRequest) per process, which runs  *)
(* ProcessCheckIn for one request at a time.  CheckOutHandler runs on HTTP *)
(* goroutines, concurrently with everything else.                          *)
(***************************************************************************)
EXTENDS Integers, Sequences, FiniteSets, TLC

\* ---------------------------------------------------------------- bounds
MaxCheckIns == 2
MaxCheckOuts == 1
MaxFaults == 1
MaxExpiries == 1
MaxFree == 2
MaxTries == 2
MaxOverflow == 2

\* ------------------------------------------------------- program constants
SemCapacity == 50
QueueCapacity == 100

\* ------------------------------------------------------------ store contents
Workers == {"w1", "w2", "w3"}
Procs == {"p1", "p2", "p3"}
CoWorkers == {"c1"}
Spaces == {"S1", "S2", "S3"}
Bookings == {"b0", "b1", "b2", "b3"}
None == "none"

LotOf(s) == "L1"

OwnerOf(b) == CASE b = "b0" -> "u0" [] b = "b1" -> "u1" [] b = "b2" -> "u2"
                   [] OTHER -> "u3"

\* b0 is an earlier booking of S1 whose vehicle is not at the gate any more.
Arriving == Bookings \ {"b0"}

\* The requests the HTTP clients send: every owner for the own booking.
Requests == {[user_id |-> OwnerOf(b), reservation_id |-> b] : b \in Arriving}

NoReq == [user_id |-> None, reservation_id |-> None]

\* Requests of a user for a booking of another user, and for a reference
\* that is in no row of reservations.
OtherRequests == {[user_id |-> "u2", reservation_id |-> "b1"],
                  [user_id |-> "u1", reservation_id |-> "bx"]}

VARIABLES
    proc,           \* goroutine -> the server process it runs in (None: not started)
    ParkingQueue,   \* process -> buffered channel of check-in requests
    Semaphore,      \* process -> number of tokens in the semaphore channel
    others,         \* process -> tokens held by callers that are not modelled
    served,         \* process -> requests acknowledged / handed to ProcessCheckIn
    reservations,   \* store: booking -> [user_id, lot, space, status]
    is_occupied,    \* store: space -> BOOLEAN
    lock,           \* lock service: space -> holder of "spot-lock:"+space
    wf,             \* goroutine -> locals of processParkingRequest/ProcessCheckIn
    co,             \* checkout goroutine -> [pc, req, lot, space]
    overlap,        \* pairs of goroutines whose current workflows ran concurrently
    outage,         \* process -> what its notifications cannot use right now
    budget          \* what the environment may still do: requests, faults, expiries

vars == <<proc, ParkingQueue, Semaphore, others, served, reservations, is_occupied,
          lock, wf, co, overlap, outage, budget>>

storeVars == <<reservations, is_occupied>>
gateVars == <<proc, ParkingQueue, Semaphore, others, served, outage>>

\* wf[w]: pc        position in the code
\*        req       the request being processed
\*        spaceID   local spaceID of ProcessCheckIn
\*        mutex     space whose lock handle the local mutex holds
\*        result    value returned by ProcessCheckIn
\*        ticket    a Semaphore token is held
\*        verified  is_occupied was read as false under the handle in mutex
\*        touched   the lock service or the store was called
\*        searched  FindAndLockAvailableSpot was called
\*        prev      the booking's row as it was before UpdateBookingWithSpot
\*        tries     failed tries of the lock.AcquireLock call that is running
\*        deferred  defer lock.ReleaseLock(mutex) is registered
\*        misuse    lock.ReleaseLock was called without a handle that is held
\*        via       why the workflow went to FindAlternative
\*        rejected  the space the workflow gave up when it went there
\*        found     the space FindAndLockAvailableSpot returned
\*        notes     the notify... helpers the workflow called
\*        lost      those of them whose message was dropped
NoRow == [status |-> None, space |-> None]

WfIdle == [pc |-> "idle", req |-> NoReq, spaceID |-> None, mutex |-> None,
           result |-> None, ticket |-> FALSE, verified |-> FALSE,
           touched |-> FALSE, searched |-> FALSE, prev |-> NoRow,
           tries |-> 0, deferred |-> FALSE, misuse |-> FALSE,
           via |-> None, rejected |-> None, found |-> None,
           notes |-> {}, lost |-> {}]

\* ------------------------------------------------------------ environment
\* A store or lock-service call may fail (connection lost, statement timeout).
Fault == budget.faults > 0
UseFault == budget' = [budget EXCEPT !.faults = @ - 1]

\* ------------------------------------------------------------ lock service
\* lock.AcquireLock: SET key NX PX ttl.  It succeeds when the key is absent.
CanAcquire(s) == lock[s] = None

\* a release that leaves the key in place
ReleaseLock_Kept(w, s) == lock

\* lock.ReleaseLock: deletes the key only when it still carries the handle's
\* value; releasing an expired handle changes nothing.
ReleaseLock(w, s) == IF s # None /\ lock[s] = w THEN [lock EXCEPT ![s] = None] ELSE lock

\* a key that is set without a time to live
HasExpiry_Never == FALSE

\* redsync.WithExpiry(ttl): the key carries a time to live
HasExpiry == TRUE

\* The key's ttl elapses, whatever its holder is doing: the key is gone, the
\* holder's handle (wf[w].mutex) is not told.
KeyExpires(s) ==
    /\ HasExpiry
    /\ lock[s] # None
    /\ lock' = [lock EXCEPT ![s] = None]

\* an expiry that is counted against the budget of the environment
Expire(s) ==
    /\ KeyExpires(s)
    /\ budget.expiries > 0
    /\ budget' = [budget EXCEPT !.expiries = @ - 1]
    /\ UNCHANGED <<gateVars, storeVars, wf, co, overlap>>

\* an expiry that is not counted: ttl is 10 s, every held key runs out
ExpireTTL(s) ==
    /\ KeyExpires(s)
    /\ UNCHANGED <<gateVars, storeVars, wf, co, overlap, budget>>

\* ------------------------------------------------------------------ store
IsParkingSpaceOccupied(s) == is_occupied[s]

Exists(b) == b \in Bookings

\* the rows FindAndLockAvailableSpot's query selects from, before LIMIT 1
Candidates(lot) ==
    {s \in Spaces :
        /\ LotOf(s) = lot
        /\ ~ \E b \in Bookings :
              /\ reservations[b].space = s
              /\ reservations[b].status \in {"active", "checked-in"}}

\* UPDATE reservations SET status, parking_lot_id, parking_space_id
\*   WHERE id = bookingID AND user_id = userID
UpdateMatches(user, b) == Exists(b) /\ reservations[b].user_id = user

UpdateBookingRow(status, b, lot, s) ==
    [reservations EXCEPT ![b] = [@ EXCEPT !.status = status, !.lot = lot, !.space = s]]

\* UPDATE reservations SET status = 'confirmed' WHERE id AND user_id
RevertBookingRow(user, b) ==
    IF UpdateMatches(user, b)
    THEN [reservations EXCEPT ![b].status = "confirmed"]
    ELSE reservations

RowOf(b) == [status |-> reservations[b].status, space |-> reservations[b].space]

\* ------------------------------------------------------------ HTTP ingress
\* a handler that leaves the reply to the workflow
Acknowledge_Deferred(p) == served

\* c.JSON(http.StatusOK, "Check-in request accepted and being processed"):
\* the statement after the send
Acknowledge(p) == [served EXCEPT ![p].accepted = @ + 1]

\* CheckInHandler: the send blocks while the buffered channel is full.
CheckInHandler(p, r) ==
    /\ \E w \in Workers : proc[w] = p
    /\ budget.checkins > 0
    /\ Len(ParkingQueue[p]) < QueueCapacity
    /\ ParkingQueue' = [ParkingQueue EXCEPT ![p] = Append(@, r)]
    /\ served' = Acknowledge(p)
    /\ budget' = [budget EXCEPT !.checkins = @ - 1]
    /\ UNCHANGED <<outage, proc, Semaphore, others, storeVars, lock, wf, co, overlap>>

\* ------------------------------------------------- processParkingRequest
InFlight(w) == wf[w].pc # "idle"

\* a receive that leaves the request in the channel
Received_Kept(q) == q

\* the channel after a receive: the request at its head is gone
Received(q) == Tail(q)

\* for req := range utils.ParkingQueue { handlers.ProcessCheckIn(req) }
Dequeue(w) ==
    /\ proc[w] # None
    /\ wf[w].pc = "idle"
    /\ ParkingQueue[proc[w]] # <<>>
    /\ wf' = [wf EXCEPT ![w] = [WfIdle EXCEPT !.pc = "select",
                                              !.req = Head(ParkingQueue[proc[w]])]]
    /\ ParkingQueue' = [ParkingQueue EXCEPT ![proc[w]] = Received(@)]
    /\ served' = [served EXCEPT ![proc[w]].handled = @ + 1]
    /\ overlap' = {pr \in overlap : w \notin pr}
                    \cup {{w, v} : v \in {x \in Workers \ {w} : InFlight(x)}}
    /\ UNCHANGED <<outage, proc, Semaphore, others, storeVars, lock, co, budget>>

\* ------------------------------------------------------------ notifications
\* what a notification needs: the description of the space from the store and
\* room in the channel of the WebSocket manager
Outages == {"GetParkingDataById", "notificationUpdates", "parkingSpaceUpdates"}

\* notifyParkingUpdate sends on parkingSpaceUpdates; the other helpers read
\* the space with services.GetParkingDataById and send on notificationUpdates
Needs(kind) == IF kind = "parkingUpdate" THEN {"parkingSpaceUpdates"}
               ELSE {"GetParkingDataById", "notificationUpdates"}

\* a send that waits for room in the channel
CanNotify_Blocking(w, kinds) ==
    \A k \in kinds : Needs(k) \cap outage[proc[w]] \subseteq {"GetParkingDataById"}

\* select { case ch <- update: ... default: log "channel is full" }: the
\* helper returns at once, whatever the state of the channel
CanNotify(w, kinds) == TRUE

\* the helpers' messages that do not reach the channel
Dropped(w, kinds) == {k \in kinds : Needs(k) \cap outage[proc[w]] # {}}

\* the workflow's record after it called the helpers of kinds
Notify(w, kinds, rec) == [rec EXCEPT !.notes = @ \cup kinds,
                                     !.lost = @ \cup Dropped(w, kinds)]

\* the description lookup starts or stops failing, a channel fills or drains
Outage(p, o) ==
    /\ o \in Outages
    /\ outage' = [outage EXCEPT ![p] = IF o \in @ THEN @ \ {o} ELSE @ \cup {o}]
    /\ UNCHANGED <<proc, ParkingQueue, Semaphore, others, served, storeVars,
                   lock, wf, co, overlap, budget>>

\* ---------------------------------------------------------- ProcessCheckIn
\* a send that does not wait for room in the channel
SemHasRoom_NoLimit(p) == TRUE

\* select { case utils.Semaphore <- struct{}{}: ... }: the send needs room
SemHasRoom(p) == Semaphore[p] < SemCapacity

SemAcquire(w) ==
    /\ wf[w].pc = "select"
    /\ SemHasRoom(proc[w])
    /\ Semaphore' = [Semaphore EXCEPT ![proc[w]] = @ + 1]
    /\ wf' = [wf EXCEPT ![w].ticket = TRUE, ![w].pc = "getBooking"]
    /\ UNCHANGED <<served, outage, proc, ParkingQueue, others, storeVars, lock, co, overlap, budget>>

\* a timeout branch that falls through to the booking lookup
AfterTimeout_FallThrough == "getBooking"

\* where ProcessCheckIn continues when ctx.Done() wins the select: it returns
AfterTimeout == "idle"

\* select { ... case <-ctx.Done(): return error }: the deadline of 30 s can
\* pass whenever the workflow is still at the select
SemTimeout(w) ==
    /\ wf[w].pc = "select"
    /\ wf' = [wf EXCEPT ![w].result = "Timeout", ![w].pc = AfterTimeout]
    /\ UNCHANGED <<gateVars, storeVars, lock, co, overlap, budget>>

\* booking, err := services.GetBookingByID(reservationID, userID)
\* The query selects by id alone.
GetBooking(w) ==
    /\ wf[w].pc = "getBooking"
    /\ LET b == wf[w].req.reservation_id
       IN \/ /\ \/ ~Exists(b) /\ UNCHANGED budget
                \/ Fault /\ UseFault
             /\ wf' = [wf EXCEPT ![w].result = "BookingNotFound",
                                 ![w].touched = TRUE, ![w].pc = "return"]
          \/ /\ Exists(b)
             /\ wf' = [wf EXCEPT ![w].spaceID = reservations[b].space,
                                 ![w].touched = TRUE, ![w].pc = "lockOrig"]
             /\ UNCHANGED budget
    /\ UNCHANGED <<gateVars, storeVars, lock, co, overlap>>

\* mutex.Lock() is called on a mutex made with WithExpiry only: the number
\* of tries is the library's, more than one; MaxTries stands for it.
LastTry(w) == wf[w].tries + 1 >= MaxTries

\* mutex.Lock() inside lock.AcquireLock: a try that finds the key held is
\* followed by a sleep and another try, until the tries are used up.
LockRetry(w) ==
    /\ wf[w].pc = "lockOrig"
    /\ ~CanAcquire(wf[w].spaceID)
    /\ ~LastTry(w)
    /\ wf' = [wf EXCEPT ![w].tries = @ + 1]
    /\ UNCHANGED <<gateVars, storeVars, lock, co, overlap, budget>>

\* mutex, err := lock.AcquireLock("spot-lock:"+spaceID, 10*time.Second)
\* err != nil (the last try found the key held, or the service failed):
\* goto FindAlternative
LockOriginal(w) ==
    /\ wf[w].pc = "lockOrig"
    /\ \/ /\ CanAcquire(wf[w].spaceID)
          /\ lock' = [lock EXCEPT ![wf[w].spaceID] = w]
          /\ wf' = [wf EXCEPT ![w].mutex = wf[w].spaceID, ![w].tries = 0,
                              ![w].pc = "checkOrig"]
          /\ UNCHANGED budget
       \/ /\ \/ ~CanAcquire(wf[w].spaceID) /\ LastTry(w) /\ UNCHANGED budget
             \/ Fault /\ UseFault
          /\ wf' = [wf EXCEPT ![w].tries = 0, ![w].via = "locked",
                              ![w].rejected = wf[w].spaceID, ![w].pc = "find"]
          /\ UNCHANGED lock
    /\ UNCHANGED <<gateVars, storeVars, co, overlap>>

\* a verification that sends every workflow to the alternative search
AfterVerified_Search == "find"

\* the original space is locked and read as not occupied: goto ProcessSpot
AfterVerified == "updateBooking"

\* a ProcessSpot without its deferred release
DeferredRelease_Missing == FALSE

\* ProcessSpot: defer lock.ReleaseLock(mutex)
DeferredRelease == TRUE

\* isOccupied, checkErr := services.IsParkingSpaceOccupied(spaceID)
\* error or occupied: lock.ReleaseLock(mutex); goto FindAlternative
VerifyOriginal(w) ==
    /\ wf[w].pc = "checkOrig"
    /\ \/ /\ ~IsParkingSpaceOccupied(wf[w].spaceID)
          /\ wf' = [wf EXCEPT ![w].verified = (lock[wf[w].spaceID] = w),
                              ![w].deferred = DeferredRelease,
                              ![w].pc = AfterVerified]
          /\ UNCHANGED <<lock, budget>>
       \/ /\ IsParkingSpaceOccupied(wf[w].spaceID)
          /\ CanNotify(w, {"findAlternative"})
          /\ lock' = ReleaseLock(w, wf[w].mutex)
          /\ wf' = [wf EXCEPT ![w] = Notify(w, {"findAlternative"},
                        [@ EXCEPT !.mutex = None,
                                  !.misuse = @ \/ wf[w].mutex = None,
                                  !.via = "occupied",
                                  !.rejected = wf[w].spaceID,
                                  !.pc = "find"])]
          /\ UNCHANGED budget
       \/ /\ Fault /\ UseFault
          /\ lock' = ReleaseLock(w, wf[w].mutex)
          /\ wf' = [wf EXCEPT ![w].mutex = None,
                              ![w].misuse = @ \/ wf[w].mutex = None,
                              ![w].via = "unreadable",
                              ![w].rejected = wf[w].spaceID,
                              ![w].pc = "find"]
    /\ UNCHANGED <<gateVars, storeVars, co, overlap>>

\* the row of the query that ends in LIMIT 1 and has no ORDER BY: at most
\* one row, any of the candidates
QueryRows(lot) == {{s} : s \in Candidates(lot)} \cup
                    (IF Candidates(lot) = {} THEN {{}} ELSE {})

\* mutex, space, err = services.FindAndLockAvailableSpot(parkingLotID)
\* The loop tries the lock of every row the query returned, in order.
FindAndLockAvailableSpot(w) ==
    /\ wf[w].pc = "find"
    /\ LET lot == reservations[wf[w].req.reservation_id].lot
           Fail == /\ CanNotify(w, {"noAlternative"})
                   /\ wf' = [wf EXCEPT ![w] = Notify(w, {"noAlternative"},
                                 [@ EXCEPT !.result = "NoAvailableSpot",
                                           !.searched = TRUE, !.pc = "return"])]
                   /\ UNCHANGED lock
       IN \/ /\ Fault /\ UseFault
             /\ Fail
          \/ \E rows \in QueryRows(lot) :
                /\ UNCHANGED budget
                /\ IF \E s \in rows : CanAcquire(s)
                   THEN \E s \in rows :
                          /\ CanAcquire(s)
                          /\ lock' = [lock EXCEPT ![s] = w]
                          /\ wf' = [wf EXCEPT ![w].mutex = s, ![w].spaceID = s,
                                              ![w].found = s,
                                              ![w].searched = TRUE,
                                              ![w].pc = "checkAlt"]
                   ELSE Fail
    /\ UNCHANGED <<gateVars, storeVars, co, overlap>>

\* a rejected alternative that is reported as a failed booking update
AfterAlternativeRejected_Update == [result |-> "UpdateBooking", pc |-> "return"]

\* a rejected alternative that sends the workflow back to the search
AfterAlternativeRejected_Retry == [result |-> None, pc |-> "find"]

\* the alternative was read as occupied, or could not be read:
\* return utils.ErrNoAvailableSpot
AfterAlternativeRejected == [result |-> "NoAvailableSpot", pc |-> "return"]

\* the double check of the alternative: error or occupied ends the workflow
VerifyAlternative(w) ==
    /\ wf[w].pc = "checkAlt"
    /\ \/ /\ ~IsParkingSpaceOccupied(wf[w].spaceID)
          /\ CanNotify(w, {"alternativeFound"})
          /\ wf' = [wf EXCEPT ![w] = Notify(w, {"alternativeFound"},
                        [@ EXCEPT !.verified = (lock[wf[w].spaceID] = w),
                                  !.deferred = DeferredRelease,
                                  !.pc = "updateBooking"])]
          /\ UNCHANGED <<lock, budget>>
       \/ /\ \/ IsParkingSpaceOccupied(wf[w].spaceID) /\ UNCHANGED budget
             \/ Fault /\ UseFault
          /\ CanNotify(w, {"noAlternative"})
          /\ lock' = ReleaseLock(w, wf[w].mutex)
          /\ wf' = [wf EXCEPT ![w] = Notify(w, {"noAlternative"},
                        [@ EXCEPT !.mutex = None,
                                  !.misuse = @ \/ wf[w].mutex = None,
                                  !.result = AfterAlternativeRejected.result,
                                  !.pc = AfterAlternativeRejected.pc])]
    /\ UNCHANGED <<gateVars, storeVars, co, overlap>>

\* ProcessSpot: services.UpdateBookingWithSpot("active", ...), first half:
\* it reads is_occupied again and refuses an occupied space.
UpdateBookingCheck(w) ==
    /\ wf[w].pc = "updateBooking"
    /\ \/ /\ ~IsParkingSpaceOccupied(wf[w].spaceID)
          /\ wf' = [wf EXCEPT ![w].pc = "writeBooking"]
          /\ UNCHANGED budget
       \/ /\ \/ IsParkingSpaceOccupied(wf[w].spaceID) /\ UNCHANGED budget
             \/ Fault /\ UseFault
          /\ wf' = [wf EXCEPT ![w].result = "UpdateBooking", ![w].pc = "return"]
    /\ UNCHANGED <<gateVars, storeVars, lock, co, overlap>>

\* an UPDATE that reports an error after it has changed the row
FailedUpdate_Applied(b) == [reservations EXCEPT ![b].status = "active"]

\* the UPDATE of UpdateBookingWithSpot that returns an error: a single
\* statement, the table is as it was
FailedUpdate(b) == reservations

\* UpdateBookingWithSpot, second half: the UPDATE ... RETURNING; no row
\* (another user's booking) is sql.ErrNoRows.
UpdateBookingWithSpot(w) ==
    /\ wf[w].pc = "writeBooking"
    /\ LET b == wf[w].req.reservation_id
       IN \/ /\ UpdateMatches(wf[w].req.user_id, b)
             /\ reservations' = UpdateBookingRow("active", b, reservations[b].lot,
                                                 wf[w].spaceID)
             /\ wf' = [wf EXCEPT ![w].prev = RowOf(b), ![w].pc = "setOccupied"]
             /\ UNCHANGED budget
          \/ /\ \/ ~UpdateMatches(wf[w].req.user_id, b) /\ UNCHANGED budget
                \/ Fault /\ UseFault
             /\ wf' = [wf EXCEPT ![w].result = "UpdateBooking", ![w].pc = "return"]
             /\ reservations' = FailedUpdate(b)
    /\ UNCHANGED <<gateVars, is_occupied, lock, co, overlap>>

\* services.UpdateParkingSpaceOccupied(true, spaceID)
UpdateParkingSpaceOccupied(w) ==
    /\ wf[w].pc = "setOccupied"
    /\ \/ /\ is_occupied' = [is_occupied EXCEPT ![wf[w].spaceID] = TRUE]
          /\ CanNotify(w, {"parkingUpdate", "spaceOccupancy"})
          /\ wf' = [wf EXCEPT ![w] = Notify(w, {"parkingUpdate", "spaceOccupancy"},
                        [@ EXCEPT !.result = "Committed", !.pc = "return"])]
          /\ UNCHANGED budget
       \/ /\ Fault /\ UseFault
          /\ wf' = [wf EXCEPT ![w].pc = "revert"]
          /\ UNCHANGED is_occupied
    /\ UNCHANGED <<gateVars, reservations, lock, co, overlap>>

\* services.RevertBookingSpot(reservationID, userID); its error is only logged
RevertBookingSpot(w) ==
    /\ wf[w].pc = "revert"
    /\ \/ /\ reservations' = RevertBookingRow(wf[w].req.user_id,
                                              wf[w].req.reservation_id)
          /\ wf' = [wf EXCEPT ![w].result = "UpdateSpace", ![w].pc = "return"]
          /\ UNCHANGED budget
       \/ /\ Fault /\ UseFault
          /\ wf' = [wf EXCEPT ![w].result = "UpdateSpace", ![w].pc = "return"]
          /\ UNCHANGED reservations
    /\ UNCHANGED <<gateVars, is_occupied, lock, co, overlap>>

\* a return path that skips the deferred receive
TokensReleased_None(w) == 0

\* the token a returning workflow takes back out of the semaphore
\* defer func() { <-utils.Semaphore }()
TokensReleased(w) == IF wf[w].ticket THEN 1 ELSE 0

\* return: the deferred calls run, lock.ReleaseLock(mutex) first when the
\* workflow came through ProcessSpot, then the receive from the semaphore
Return(w) ==
    /\ wf[w].pc = "return"
    /\ lock' = IF wf[w].deferred THEN ReleaseLock(w, wf[w].mutex) ELSE lock
    /\ Semaphore' = [Semaphore EXCEPT ![proc[w]] = @ - TokensReleased(w)]
    /\ wf' = [wf EXCEPT ![w].mutex = IF wf[w].deferred THEN None ELSE @,
                        ![w].misuse = @ \/ (wf[w].deferred /\ wf[w].mutex = None),
                        ![w].ticket = (TokensReleased(w) = 0 /\ wf[w].ticket),
                        ![w].pc = "idle"]
    /\ UNCHANGED <<served, outage, proc, ParkingQueue, others, storeVars, co, overlap, budget>>

\* --------------------------------------------------------- CheckOutHandler
CoIdle == [pc |-> "idle", req |-> NoReq, lot |-> None, space |-> None]

\* booking, err := services.GetBookingByID(id, userID)
CheckOutGetBooking(c, r) ==
    /\ co[c].pc = "idle"
    /\ budget.checkouts > 0
    /\ budget' = [budget EXCEPT !.checkouts = @ - 1]
    /\ IF Exists(r.reservation_id)
       THEN co' = [co EXCEPT ![c] = [pc |-> "update", req |-> r,
                                      lot |-> reservations[r.reservation_id].lot,
                                      space |-> reservations[r.reservation_id].space]]
       ELSE UNCHANGED co
    /\ UNCHANGED <<gateVars, storeVars, lock, wf, overlap>>

\* services.UpdateBookingWithSpot("completed", userID, id, lot, space)
CheckOutUpdateBooking(c) ==
    /\ co[c].pc = "update"
    /\ LET b == co[c].req.reservation_id
       IN \/ /\ UpdateMatches(co[c].req.user_id, b)
             /\ reservations' = UpdateBookingRow("completed", b, co[c].lot, co[c].space)
             /\ co' = [co EXCEPT ![c].pc = "free"]
             /\ UNCHANGED budget
          \/ /\ \/ ~UpdateMatches(co[c].req.user_id, b) /\ UNCHANGED budget
                \/ Fault /\ UseFault
             /\ co' = [co EXCEPT ![c] = CoIdle]
             /\ UNCHANGED reservations
    /\ UNCHANGED <<gateVars, is_occupied, lock, wf, overlap>>

\* services.UpdateParkingSpaceOccupied(false, booking.ParkingSpaceID)
CheckOutFreeSpace(c) ==
    /\ co[c].pc = "free"
    /\ \/ /\ is_occupied' = [is_occupied EXCEPT ![co[c].space] = FALSE]
          /\ UNCHANGED budget
       \/ /\ Fault /\ UseFault
          /\ UNCHANGED is_occupied
    /\ co' = [co EXCEPT ![c] = CoIdle]
    /\ UNCHANGED <<gateVars, reservations, lock, wf, overlap>>

\* ------------------------------------------- other callers of ProcessCheckIn
\* ProcessCheckIn is exported and takes its ticket from the package-level
\* Semaphore: any goroutine of the process that calls it competes for the
\* same SemCapacity tokens.  The callers that are not followed step by step
\* are counted: one takes a token when there is room and gives it back when
\* it returns.
OtherEnter(p) ==
    /\ \E w \in Workers : proc[w] = p
    /\ Semaphore[p] < SemCapacity
    /\ Semaphore' = [Semaphore EXCEPT ![p] = @ + 1]
    /\ others' = [others EXCEPT ![p] = @ + 1]
    /\ UNCHANGED <<served, outage, proc, ParkingQueue, storeVars, lock, wf, co, overlap, budget>>

OtherExit(p) ==
    /\ others[p] > SemCapacity - MaxFree
    /\ Semaphore' = [Semaphore EXCEPT ![p] = @ - 1]
    /\ others' = [others EXCEPT ![p] = @ - 1]
    /\ UNCHANGED <<served, outage, proc, ParkingQueue, storeVars, lock, wf, co, overlap, budget>>

\* ------------------------------------------------------------ specification
\* what CreateReservation left in the store: pending bookings, more than one
\* of them may name the same space
\* CreateReservation inserts a booking as 'pending' for the space the user
\* chose, whether or not another booking names that space.  b0 was checked in
\* on S1 before and has left the lifecycle since.
Pending(f) == [b \in Bookings |->
                 IF b = "b0"
                 THEN [user_id |-> OwnerOf(b), lot |-> "L1", space |-> "S1",
                       status |-> "completed"]
                 ELSE [user_id |-> OwnerOf(b), lot |-> "L1", space |-> f[b],
                       status |-> "pending"]]

InitCommon ==
    /\ ParkingQueue = [p \in Procs |-> <<>>]
    /\ served = [p \in Procs |-> [accepted |-> 0, handled |-> 0]]
    /\ is_occupied = [s \in Spaces |-> FALSE]
    /\ lock = [s \in Spaces |-> None]
    /\ wf = [w \in Workers |-> WfIdle]
    /\ co = [c \in CoWorkers |-> CoIdle]
    /\ overlap = {}
    /\ outage = [p \in Procs |-> {}]

\* Two server processes, each with its consumer goroutine.
Init ==
    /\ InitCommon
    /\ proc = [w \in Workers |-> CASE w = "w1" -> "p1" [] w = "w2" -> "p2"
                                   [] OTHER -> None]
    /\ Semaphore = [p \in Procs |-> 0]
    /\ others = [p \in Procs |-> 0]
    /\ reservations \in {Pending([b \in Bookings |-> "S1"]),
                         Pending([b \in Bookings |-> IF b = "b1" THEN "S1" ELSE "S2"])}
    /\ budget = [checkins |-> MaxCheckIns, checkouts |-> MaxCheckOuts,
                 faults |-> MaxFaults, expiries |-> MaxExpiries]

Step(w) ==
    \/ Dequeue(w)
    \/ SemAcquire(w)
    \/ SemTimeout(w)
    \/ GetBooking(w)
    \/ LockRetry(w)
    \/ LockOriginal(w)
    \/ VerifyOriginal(w)
    \/ FindAndLockAvailableSpot(w)
    \/ VerifyAlternative(w)
    \/ UpdateBookingCheck(w)
    \/ UpdateBookingWithSpot(w)
    \/ UpdateParkingSpaceOccupied(w)
    \/ Return(w)

Next ==
    \/ \E p \in Procs, r \in Requests : CheckInHandler(p, r)
    \/ \E w \in Workers : Step(w)
    \/ \E w \in Workers : RevertBookingSpot(w)
    \/ \E c \in CoWorkers, r \in Requests : CheckOutGetBooking(c, r)
    \/ \E c \in CoWorkers : CheckOutUpdateBooking(c)
    \/ \E c \in CoWorkers : CheckOutFreeSpace(c)
    \/ \E s \in Spaces : Expire(s)

Spec == Init /\ [][Next]_vars

\* One server process whose ProcessCheckIn is called from several goroutines
\* at once, next to other callers that keep the semaphore nearly full.
InitGate ==
    /\ InitCommon
    /\ proc = [w \in Workers |-> "p1"]
    /\ \E n \in (SemCapacity - MaxFree)..SemCapacity :
          /\ others = [p \in Procs |-> IF p = "p1" THEN n ELSE 0]
          /\ Semaphore = others
    /\ reservations = Pending([b \in Bookings |-> IF b = "b1" THEN "S1" ELSE "S2"])
    /\ budget = [checkins |-> MaxCheckIns, checkouts |-> 0, faults |-> 0,
                 expiries |-> 0]

NextGate ==
    \/ \E p \in Procs, r \in Requests : CheckInHandler(p, r)
    \/ \E w \in Workers : Step(w)
    \/ \E p \in Procs : OtherEnter(p)
    \/ \E p \in Procs : OtherExit(p)

SpecGate == InitGate /\ [][NextGate]_vars

\* The end-to-end scenario: three server processes, one check-in queued in
\* each, the three bookings name S1, and S1 is occupied by the vehicle of b0,
\* whose booking is still active, was cancelled (CancelReservation leaves
\* is_occupied as it is) or was completed by a check-out whose occupancy
\* write failed.  No fault, no expiry, no check-out.
InitE2E ==
    /\ proc = [w \in Workers |-> CASE w = "w1" -> "p1" [] w = "w2" -> "p2"
                                   [] OTHER -> "p3"]
    /\ ParkingQueue = [p \in Procs |->
          LET b == CASE p = "p1" -> "b1" [] p = "p2" -> "b2" [] OTHER -> "b3"
          IN <<[user_id |-> OwnerOf(b), reservation_id |-> b]>>]
    /\ Semaphore = [p \in Procs |-> 0]
    /\ others = [p \in Procs |-> 0]
    /\ \E st \in {"active", "cancelled", "completed"} :
          reservations = [Pending([b \in Bookings |-> "S1"]) EXCEPT !["b0"].status = st]
    /\ served = [p \in Procs |-> [accepted |-> 1, handled |-> 0]]
    /\ is_occupied = [s \in Spaces |-> s = "S1"]
    /\ lock = [s \in Spaces |-> None]
    /\ wf = [w \in Workers |-> WfIdle]
    /\ co = [c \in CoWorkers |-> CoIdle]
    /\ overlap = {}
    /\ outage = [p \in Procs |-> {}]
    /\ budget = [checkins |-> 0, checkouts |-> 0, faults |-> 0, expiries |-> 0]

NextE2E == \E w \in Workers : Step(w)

SpecE2E == InitE2E /\ [][NextE2E]_vars

\* Two server processes whose lock keys run out of their ttl; a goroutine
\* may stop at any point (no fairness on its steps), the ttl always elapses.
InitTTL ==
    /\ InitCommon
    /\ proc = [w \in Workers |-> CASE w = "w1" -> "p1" [] w = "w2" -> "p2"
                                   [] OTHER -> None]
    /\ Semaphore = [p \in Procs |-> 0]
    /\ others = [p \in Procs |-> 0]
    /\ reservations \in {Pending([b \in Bookings |-> "S1"]),
                         Pending([b \in Bookings |-> IF b = "b1" THEN "S1" ELSE "S2"])}
    /\ budget = [checkins |-> MaxCheckIns, checkouts |-> 0, faults |-> 0,
                 expiries |-> 0]

NextTTL ==
    \/ \E p \in Procs, r \in Requests : CheckInHandler(p, r)
    \/ \E w \in Workers : Step(w)
    \/ \E s \in Spaces : ExpireTTL(s)

SpecTTL == InitTTL /\ [][NextTTL]_vars /\ \A s \in Spaces : WF_vars(ExpireTTL(s))

\* One server process under a burst of check-in requests for one booking:
\* more requests than the queue has slots.  The scheduler is fair to the
\* consumer goroutine.
StepAlone(w) ==
    \/ Dequeue(w)
    \/ SemAcquire(w)
    \/ SemTimeout(w)
    \/ GetBooking(w)
    \/ LockOriginal(w)
    \/ VerifyOriginal(w)
    \/ FindAndLockAvailableSpot(w)
    \/ VerifyAlternative(w)
    \/ UpdateBookingCheck(w)
    \/ UpdateBookingWithSpot(w)
    \/ UpdateParkingSpaceOccupied(w)
    \/ Return(w)

InitQueue ==
    /\ InitCommon
    /\ proc = [w \in Workers |-> IF w = "w1" THEN "p1" ELSE None]
    /\ Semaphore = [p \in Procs |-> 0]
    /\ others = [p \in Procs |-> 0]
    /\ reservations = Pending([b \in Bookings |-> "S1"])
    /\ budget = [checkins |-> QueueCapacity + MaxOverflow, checkouts |-> 0,
                 faults |-> 0, expiries |-> 0]

NextQueue ==
    \/ \E p \in Procs : CheckInHandler(p, [user_id |-> "u1", reservation_id |-> "b1"])
    \/ \E w \in Workers : StepAlone(w)

SpecQueue == InitQueue /\ [][NextQueue]_vars /\ \A w \in Workers : WF_vars(StepAlone(w))

\* One server process with two requests waiting while the description
\* lookup of its notifications fails, and its channels fill, at any time;
\* S1, the space of both bookings, is occupied.
InitNotify ==
    /\ proc = [w \in Workers |-> IF w = "w1" THEN "p1" ELSE None]
    /\ ParkingQueue = [p \in Procs |->
          IF p = "p1" THEN <<[user_id |-> "u1", reservation_id |-> "b1"],
                             [user_id |-> "u2", reservation_id |-> "b2"]>>
          ELSE <<>>]
    /\ served = [p \in Procs |-> [accepted |-> Len(ParkingQueue[p]), handled |-> 0]]
    /\ Semaphore = [p \in Procs |-> 0]
    /\ others = [p \in Procs |-> 0]
    /\ reservations = Pending([b \in Bookings |-> "S1"])
    /\ is_occupied = [s \in Spaces |-> s = "S1"]
    /\ lock = [s \in Spaces |-> None]
    /\ wf = [w \in Workers |-> WfIdle]
    /\ co = [c \in CoWorkers |-> CoIdle]
    /\ overlap = {}
    /\ outage = [p \in Procs |-> {}]
    /\ budget = [checkins |-> 0, checkouts |-> 0, faults |-> MaxFaults,
                 expiries |-> 0]

StepNotify(w) == StepAlone(w) \/ RevertBookingSpot(w)

NextNotify ==
    \/ \E w \in Workers : StepNotify(w)
    \/ \E o \in Outages : Outage("p1", o)

SpecNotify == InitNotify /\ [][NextNotify]_vars

\* Two server processes under a fair scheduler: the first has two requests
\* waiting, the second one; the three bookings name the same space, which
\* is free or occupied, and one store or lock call may fail.
InitLive ==
    /\ proc = [w \in Workers |-> CASE w = "w1" -> "p1" [] w = "w2" -> "p2"
                                   [] OTHER -> None]
    /\ ParkingQueue = [p \in Procs |->
          CASE p = "p1" -> <<[user_id |-> "u1", reservation_id |-> "b1"],
                            [user_id |-> "u2", reservation_id |-> "b2"]>>
            [] p = "p2" -> <<[user_id |-> "u3", reservation_id |-> "b3"]>>
            [] OTHER -> <<>>]
    /\ served = [p \in Procs |-> [accepted |-> Len(ParkingQueue[p]), handled |-> 0]]
    /\ Semaphore = [p \in Procs |-> 0]
    /\ others = [p \in Procs |-> 0]
    /\ reservations = Pending([b \in Bookings |-> "S1"])
    /\ is_occupied \in {[s \in Spaces |-> FALSE], [s \in Spaces |-> s = "S1"]}
    /\ lock = [s \in Spaces |-> None]
    /\ wf = [w \in Workers |-> WfIdle]
    /\ co = [c \in CoWorkers |-> CoIdle]
    /\ overlap = {}
    /\ outage = [p \in Procs |-> {}]
    /\ budget = [checkins |-> 0, checkouts |-> 0, faults |-> MaxFaults,
                 expiries |-> 0]

StepLive(w) == Step(w) \/ RevertBookingSpot(w)

NextLive == \E w \in Workers : StepLive(w)

SpecLive == InitLive /\ [][NextLive]_vars /\ \A w \in Workers : WF_vars(StepLive(w))

\* Two server processes that also receive requests for bookings the
\* requester does not own and for references that do not exist.
InitLookup ==
    /\ InitCommon
    /\ proc = [w \in Workers |-> CASE w = "w1" -> "p1" [] w = "w2" -> "p2"
                                   [] OTHER -> None]
    /\ Semaphore = [p \in Procs |-> 0]
    /\ others = [p \in Procs |-> 0]
    /\ reservations = Pending([b \in Bookings |-> "S1"])
    /\ budget = [checkins |-> MaxCheckIns, checkouts |-> 0, faults |-> 0,
                 expiries |-> 0]

NextLookup ==
    \/ \E p \in Procs, r \in Requests \cup OtherRequests : CheckInHandler(p, r)
    \/ \E w \in Workers : Step(w)

SpecLookup == InitLookup /\ [][NextLookup]_vars

\* ------------------------------------------------------------------ claims
Terminal(w) == wf[w].pc = "idle" /\ wf[w].result # None

CommittedOn(w, s) == wf[w].result = "Committed" /\ wf[w].spaceID = s

\* C1: of the check-in workflows that ran concurrently and raced for one
\* space, at most one ends Committed with that space.
C1_MutualExclusion ==
    \A w1 \in Workers, w2 \in Workers, s \in Spaces :
        (w1 # w2 /\ {w1, w2} \in overlap
                 /\ wf[w1].req.reservation_id # wf[w2].req.reservation_id)
            => ~(CommittedOn(w1, s) /\ CommittedOn(w2, s))

\* C2: no two bookings in state active reference the same parking space.
C2_NoDoubleAssignment ==
    \A b1 \in Bookings, b2 \in Bookings :
        (b1 # b2 /\ reservations[b1].status = "active"
                 /\ reservations[b2].status = "active")
            => reservations[b1].space # reservations[b2].space

\* the step of w that writes is_occupied = true
WritesOccupied(w) ==
    /\ wf[w].pc = "setOccupied"
    /\ wf'[w].result = "Committed"

\* C3: a workflow sets a space's occupied flag only while it holds the
\* unexpired lock of that space, and after it has read the flag as false
\* under that lock.
C3_OccupiedOnlyUnderLock ==
    [][\A w \in Workers :
          WritesOccupied(w) => (lock[wf[w].spaceID] = w /\ wf[w].verified)]_vars

TicketHolders(p) == {w \in Workers : proc[w] = p /\ wf[w].ticket}

C5_FailFast ==
    \A w \in Workers :
        wf[w].result = "Timeout"
            => /\ Terminal(w)
               /\ ~wf[w].ticket
               /\ ~wf[w].touched
               /\ wf[w].mutex = None

\* a workflow timed out at a full gate
C5_Witness ==
    \E w \in Workers :
        /\ wf[w].result = "Timeout"
        /\ Semaphore[proc[w]] = SemCapacity

\* C6: the tokens in a process's semaphore are exactly those of the workflows
\* in flight that took one; a workflow that has returned holds none, so the
\* semaphore is empty once every workflow has returned.
C6_TicketReleased ==
    /\ \A p \in Procs : Semaphore[p] = Cardinality(TicketHolders(p)) + others[p]
    /\ \A w \in Workers : Terminal(w) => ~wf[w].ticket
    /\ (\A w \in Workers : ~InFlight(w)) => \A p \in Procs : Semaphore[p] = others[p]

\* one workflow returned Committed and another failed after the booking
\* update, both after taking a ticket, and the semaphores are empty again
C6_Witness ==
    /\ \E w1 \in Workers, w2 \in Workers :
          /\ Terminal(w1) /\ wf[w1].result = "Committed"
          /\ Terminal(w2) /\ wf[w2].result = "UpdateSpace"
    /\ \A p \in Procs : Semaphore[p] = 0

RevertSucceeds(w) ==
    /\ wf[w].pc = "revert"
    /\ wf'[w].pc = "return"
    /\ budget' = budget

\* C7: when the occupancy write failed after the booking update and
\* RevertBookingSpot ran without error, the booking's status and space are
\* what they were before the failed attempt.
C7_CompensationRestores ==
    [][\A w \in Workers :
          RevertSucceeds(w)
              => LET b == wf[w].req.reservation_id
                 IN [status |-> reservations'[b].status,
                     space |-> reservations'[b].space] = wf[w].prev]_vars

OriginalLockedByOther(w) ==
    /\ wf[w].spaceID = reservations[wf[w].req.reservation_id].space
    /\ lock[wf[w].spaceID] \notin {None, w}

FreeAlternatives(w) ==
    LET b == wf[w].req.reservation_id
    IN {s \in Candidates(reservations[b].lot) :
           /\ s # reservations[b].space
           /\ ~is_occupied[s]
           /\ lock[s] = None}

\* C8: when the search for an alternative runs while the original space is
\* locked by another holder and exactly one other space of the lot is free,
\* unlocked and without an active reservation, the search hands out that
\* space (the workflow goes on to verify and commit it).
C8_AlternativeFallback ==
    [][\A w \in Workers, a \in Spaces :
          (/\ wf[w].pc = "find"
           /\ wf'[w].pc # "find"
           /\ OriginalLockedByOther(w)
           /\ FreeAlternatives(w) = {a})
              => (wf'[w].pc = "checkAlt" /\ wf'[w].spaceID = a)]_vars

\* C9: in the end-to-end scenario, once the three check-ins have returned and
\* none of them timed out at the semaphore, at least one is Committed on S2
\* or S3, every one is Committed on S2 or S3 or failed with NoAvailableSpot,
\* and no space is assigned to two of them.
C9_EndToEnd ==
    (\A w \in Workers : Terminal(w) /\ wf[w].result # "Timeout")
      => /\ \E w \in Workers : CommittedOn(w, "S2") \/ CommittedOn(w, "S3")
         /\ \A w \in Workers :
               \/ CommittedOn(w, "S2") \/ CommittedOn(w, "S3")
               \/ wf[w].result = "NoAvailableSpot"
         /\ \A w1 \in Workers, w2 \in Workers :
               (w1 # w2 /\ wf[w1].result = "Committed" /\ wf[w2].result = "Committed")
                   => wf[w1].spaceID # wf[w2].spaceID

\* C10: a lock key that is held becomes acquirable again, even when its
\* holder never calls ReleaseLock: the ttl elapses.
C10_LockExpiry == \A s \in Spaces : (lock[s] # None) ~> CanAcquire(s)

\* a goroutine still has the handle of a key that ran out and that another
\* caller has acquired since
C10_Witness ==
    \E s \in Spaces, w \in Workers, v \in Workers :
        /\ w # v
        /\ wf[w].mutex = s
        /\ lock[s] = v

\* C11: a call of AcquireLock that finds the key held by another caller
\* returns its error at once: the lock of the original space is only ever
\* acquired on the first try, never by a caller that found it held and
\* tried the same key again.
C11_FailFastLock ==
    [][\A w \in Workers :
          (wf[w].pc = "lockOrig" /\ wf'[w].pc = "checkOrig") => wf[w].tries = 0]_vars

\* C12: the consumer loop can take the next request off the queue while the
\* workflow of an earlier request is still in progress: whenever a request
\* waits in the queue of a started process, its loop can dequeue it.
C12_ParallelWorkflows ==
    \A w \in Workers :
        (proc[w] # None /\ ParkingQueue[proc[w]] # <<>>) => ENABLED Dequeue(w)

Unserved(p) == served[p].accepted - served[p].handled

\* C13: the requests CheckInHandler has acknowledged are exactly those still
\* in the queue plus those handed to ProcessCheckIn, one hand-over each, and
\* the queue never holds more than its 100 slots; with a fair scheduler a
\* queue that holds requests leads to all acknowledged requests handed over.
C13_ExactlyOnce ==
    /\ [](\A p \in Procs :
            /\ Unserved(p) = Len(ParkingQueue[p])
            /\ Len(ParkingQueue[p]) <= QueueCapacity)
    /\ \A p \in Procs : (ParkingQueue[p] # <<>>) ~> (Unserved(p) = 0)

\* the queue is full while a further request is waiting to be sent and the
\* loop has handed over earlier ones
C13_Witness ==
    \E p \in Procs :
        /\ Len(ParkingQueue[p]) = QueueCapacity
        /\ budget.checkins > 0
        /\ served[p].handled > 0

\* C14: the step of CheckInHandler that puts a request on the queue sends
\* the acknowledgment and touches no workflow, and it can be taken whenever
\* the queue has room, whatever the workflows of the process are doing.
C14_FireAndAccept ==
    /\ [][\A p \in Procs :
            Len(ParkingQueue'[p]) > Len(ParkingQueue[p])
                => (served'[p].accepted = served[p].accepted + 1 /\ wf' = wf)]_vars
    /\ [](\A p \in Procs, r \in Requests :
            ((\E w \in Workers : proc[w] = p) /\ budget.checkins > 0
                 /\ Len(ParkingQueue[p]) < QueueCapacity)
                => ENABLED CheckInHandler(p, r))

\* a request was acknowledged while a workflow of the process was still in
\* progress and the acknowledged request itself still waits in the queue
C14_Witness ==
    \E p \in Procs, w \in Workers :
        /\ proc[w] = p
        /\ InFlight(w)
        /\ wf[w].result = None
        /\ served[p].accepted = 2
        /\ Len(ParkingQueue[p]) = 1

WorkflowWrites(w) ==
    /\ wf[w].pc \in {"writeBooking", "setOccupied", "revert"}
    /\ wf'[w].pc # wf[w].pc
    /\ storeVars' # storeVars

CheckOutWrites(c) ==
    /\ co[c].pc \in {"update", "free"}
    /\ co'[c].pc # co[c].pc
    /\ storeVars' # storeVars

\* C15: every step of a check-in workflow (assignment, compensation) or of a
\* check-out that changes a booking row or an occupied flag is taken while
\* the writer holds the lock of the space concerned.
C15_LockGuardedMutation ==
    [][/\ \A w \in Workers : WorkflowWrites(w) => lock[wf[w].spaceID] = w
       /\ \A c \in CoWorkers : CheckOutWrites(c) => lock[co[c].space] = c]_vars

FinderReturns(w) ==
    /\ wf[w].pc = "find"
    /\ wf'[w].pc # "find"
    /\ budget' = budget

\* C16: a call of FindAndLockAvailableSpot that meets no store error fails
\* only when no candidate of the lot (a space without a reservation in
\* active or checked-in) could be locked; when it succeeds the caller holds
\* the lock of the returned space, when it fails the locks are unchanged.
C16_FinderContract ==
    [][\A w \in Workers :
          FinderReturns(w)
              => LET lot == reservations[wf[w].req.reservation_id].lot
                 IN IF wf'[w].pc = "checkAlt"
                    THEN /\ wf'[w].spaceID \in Candidates(lot)
                         /\ lock'[wf'[w].spaceID] = w
                    ELSE /\ \A s \in Candidates(lot) : ~CanAcquire(s)
                         /\ lock' = lock]_vars

Owned(r) ==
    /\ Exists(r.reservation_id)
    /\ reservations[r.reservation_id].user_id = r.user_id

\* C17: a workflow whose request names a booking that does not exist or is
\* not the requester's never holds a lock handle, and it ends with
\* BookingNotFound (or with the timeout of the gate, before the lookup).
C17_LookupByRequester ==
    \A w \in Workers :
        (wf[w].req # NoReq /\ ~Owned(wf[w].req))
            => /\ wf[w].mutex = None
               /\ wf[w].result \in {None, "BookingNotFound", "Timeout"}

C19_Lifecycle ==
    [][\A w \in Workers, b \in Bookings :
          (WorkflowWrites(w) /\ reservations'[b].status # reservations[b].status)
              => <<reservations[b].status, reservations'[b].status>>
                    \in {<<"pending", "active">>, <<"active", "pending">>}]_vars

\* C20: a workflow that acquired the lock of the original space (the space
\* of the booking as it read it) and read the space as not occupied goes on
\* to the assignment with that space and its lock handle, and the
\* alternative search is entered only after the original's lock could not
\* be acquired, the space was read as occupied, or one of the two calls
\* failed.
C20_OriginalPriority ==
    [][\A w \in Workers :
          /\ (wf[w].pc = "checkOrig" /\ wf'[w].pc # "checkOrig" /\ budget' = budget
                 /\ ~IsParkingSpaceOccupied(wf[w].spaceID))
                => /\ wf'[w].pc = "updateBooking"
                   /\ wf'[w].spaceID = wf[w].spaceID
                   /\ wf'[w].mutex = wf[w].spaceID
                   /\ ~wf'[w].searched
          /\ (wf'[w].pc = "find" /\ wf[w].pc # "find")
                => \/ budget' # budget
                   \/ wf[w].pc = "lockOrig" /\ ~CanAcquire(wf[w].spaceID)
                   \/ wf[w].pc = "checkOrig" /\ IsParkingSpaceOccupied(wf[w].spaceID)
          /\ (wf'[w].searched /\ ~wf[w].searched) => wf[w].pc = "find"]_vars

\* a workflow committed its original space without having searched
C20_Witness ==
    \E w \in Workers :
        /\ Terminal(w)
        /\ wf[w].result = "Committed"
        /\ reservations[wf[w].req.reservation_id].space = wf[w].spaceID
        /\ wf[w].verified
        /\ ~wf[w].searched

\* FindAlternative: the call of services.FindAndLockAvailableSpot
FinderInvoked(w) == wf[w].pc = "find" /\ wf'[w].pc # "find"

\* C21: a workflow that went to the alternative search because the lock of
\* the original space could not be acquired, or because the original was
\* read as occupied under the lock, has called the "searching alternative"
\* notification when it invokes the Finder, and in the occupied case it
\* holds no lock any more at that moment.
C21_NotifiedBeforeSearch ==
    [][\A w \in Workers :
          FinderInvoked(w) /\ wf[w].via \in {"locked", "occupied"}
              => /\ "findAlternative" \in wf[w].notes
                 /\ wf[w].via = "occupied"
                       => wf[w].mutex = None /\ lock[wf[w].rejected] # w]_vars

\* a store call of the workflow's step failed
StoreError(w) == wf'[w].pc # wf[w].pc /\ budget'.faults # budget.faults

EarlyFailures == {"Timeout", "BookingNotFound", "NoAvailableSpot", "UpdateBooking"}

C25_CompensationOnce ==
    [][\A w \in Workers :
          /\ (wf[w].pc = "setOccupied" /\ StoreError(w)) => wf'[w].pc = "revert"
          /\ (wf'[w].pc = "revert" /\ wf[w].pc # "revert")
                => wf[w].pc = "setOccupied" /\ StoreError(w)
          /\ (wf[w].pc = "revert" /\ wf'[w].pc # "revert")
                => /\ lock[wf[w].spaceID] = w
                   /\ wf'[w].pc = "return"
                   /\ wf'[w].result = "UpdateSpace"]_vars

\* the position and result of a workflow right after it called the helper
AfterNotification(kind) ==
    CASE kind = "findAlternative" -> [pc |-> "find", result |-> None]
      [] kind = "noAlternative" -> [pc |-> "return", result |-> "NoAvailableSpot"]
      [] kind = "alternativeFound" -> [pc |-> "updateBooking", result |-> None]
      [] OTHER -> [pc |-> "return", result |-> "Committed"]

\* C26: a workflow at a statement that notifies can always take its step,
\* whatever the notification lookup and the channels do; a notification
\* that is dropped leaves the workflow where the delivered one would; and
\* an occupancy write that succeeds (the booking write before it has) ends
\* the workflow Committed.
C26_BestEffortNotifications ==
    /\ [](\A w \in Workers :
             wf[w].pc \in {"checkOrig", "find", "checkAlt", "setOccupied"}
                 => ENABLED StepNotify(w))
    /\ [][\A w \in Workers :
             /\ \A k \in wf'[w].notes \ wf[w].notes :
                   /\ wf'[w].pc = AfterNotification(k).pc
                   /\ wf'[w].result = AfterNotification(k).result
             /\ (wf[w].pc = "setOccupied" /\ wf'[w].pc # "setOccupied"
                    /\ ~StoreError(w))
                   => /\ wf'[w].result = "Committed"
                      /\ wf'[w].pc = "return"
                      /\ wf[w].prev # NoRow
                      /\ is_occupied'[wf[w].spaceID]]_vars

\* a workflow ended Committed although both of its last notifications, and
\* an earlier one, were dropped
C26_Witness ==
    \E w \in Workers :
        /\ Terminal(w)
        /\ wf[w].result = "Committed"
        /\ {"parkingUpdate", "spaceOccupancy"} \subseteq wf[w].lost
        /\ wf[w].lost \cap {"findAlternative", "alternativeFound"} # {}

\* no request is waiting and no check-in or check-out is mid-flight
Quiescent ==
    /\ \A p \in Procs : ParkingQueue[p] = <<>>
    /\ \A w \in Workers : ~InFlight(w)
    /\ \A c \in CoWorkers : co[c].pc = "idle"

OccupiedSpaces == {s \in Spaces : is_occupied[s]}

ActiveBookings == {b \in Bookings : reservations[b].status = "active"}

\* only check-ins have run: no store or lock call has failed, no key has
\* expired and no check-out was requested
CheckInsOnly ==
    /\ budget.faults = MaxFaults
    /\ budget.expiries = MaxExpiries
    /\ budget.checkouts = MaxCheckOuts

\* C27: one booking occupies at most one space: in every quiescent state
\* the spaces with occupied = true are no more than the bookings in state
\* active, however often and wherever a booking was checked in (stated for
\* the runs of check-ins in which no call failed and no key expired).
C27_OneSpacePerBooking ==
    (Quiescent /\ CheckInsOnly)
        => Cardinality(OccupiedSpaces) <= Cardinality(ActiveBookings)

\* CheckOutHandler's services.UpdateParkingSpaceOccupied(false, space) ran
CheckOutClears(c) ==
    /\ co[c].pc = "free"
    /\ is_occupied[co[c].space]
    /\ ~is_occupied'[co[c].space]

\* C28: in every quiescent state the space of every active booking is
\* occupied, and a check-out never clears the occupied flag of a space that
\* an active booking other than its own is assigned to (stated for the runs
\* in which no call failed and no key expired).
C28_ActiveStaysOccupied ==
    /\ [](Quiescent /\ budget.faults = MaxFaults /\ budget.expiries = MaxExpiries
             => \A b \in ActiveBookings : is_occupied[reservations[b].space])
    /\ [][\A c \in CoWorkers :
             CheckOutClears(c) /\ budget.faults = MaxFaults
                               /\ budget.expiries = MaxExpiries
                 => ~\E b \in ActiveBookings \ {co[c].req.reservation_id} :
                        reservations[b].space = co[c].space]_vars

\* C29: the space FindAndLockAvailableSpot returns to a workflow is never
\* the space the workflow has just given up, and a workflow that searched
\* and ends Committed is committed on another space than the one it gave up.
C29_AlternativeDiffers ==
    /\ [][\A w \in Workers :
             FinderInvoked(w) /\ wf'[w].pc = "checkAlt"
                 => wf'[w].found # wf[w].rejected]_vars
    /\ [](\A w \in Workers :
             wf[w].searched /\ wf[w].result = "Committed"
                 => wf[w].spaceID # wf[w].rejected)

\* the keys whose value is the workflow's
LocksHeld(w) == {s \in Spaces : lock[s] = w}

====
